---- MODULE Spec2Model ----
(***************************************************************************)
(* Webcam Mocap Explorer (src/src/main.js): the record / playback state    *)
(* machine, the playback timer chain and the live pose loop.               *)
(*                                                                         *)
(* The module state of main.js (recordedFrames, isRecording, ...) is the   *)
(* VARIABLES below.  Every function of main.js that changes that state is  *)
(* an operator from a state record to a state record (so that a function   *)
(* calling another is the composition of the two), and every event the     *)
(* browser can deliver (a click, a slider input, a timer firing, an        *)
(* animation frame, the detector's promise resolving) is one action.       *)
(*                                                                         *)
(* Numbers: a score is in thousandths (500 is 0.5), a normalised           *)
(* coordinate is in thousandths of the frame size, time is in whole        *)
(* milliseconds.  Text-only DOM state (status line, button captions, the   *)
(* fps label, the "video-hidden" class and the playback notice) is not     *)
(* kept: no handler reads it back.                                         *)
(***************************************************************************)
EXTENDS Integers, Sequences, FiniteSets, TLC

\* ------------------------------------------------------------ bounds
MaxFrames == 3      \* frames one recording may hold in the model
MaxTime   == 1      \* largest value of the millisecond clock
MaxTimers == 3      \* size of the pool of timer handles
MaxEdits  == 2      \* edits made to a raw keypoint list before a call

\* ------------------------------------------------------------ tables
KEYPOINT_LABELS ==
  << "nose", "left_eye_inner", "left_eye", "left_eye_outer",
     "right_eye_inner", "right_eye", "right_eye_outer", "left_ear",
     "right_ear", "mouth_left", "mouth_right", "left_shoulder",
     "right_shoulder", "left_elbow", "right_elbow", "left_wrist",
     "right_wrist", "left_pinky", "right_pinky", "left_index",
     "right_index", "left_thumb", "right_thumb", "left_hip", "right_hip",
     "left_knee", "right_knee", "left_ankle", "right_ankle", "left_heel",
     "right_heel", "left_foot_index", "right_foot_index" >>

\* Positions are 0-based as in the source; sequence s holds position i at
\* s[i + 1].
LabelAt(i) == KEYPOINT_LABELS[i + 1]

HasLabel(name) == \E i \in 1..Len(KEYPOINT_LABELS) : KEYPOINT_LABELS[i] = name

\* KEYPOINT_INDEX[name] for a name of the table.
KEYPOINT_INDEX(name) ==
  (CHOOSE i \in 1..Len(KEYPOINT_LABELS) : KEYPOINT_LABELS[i] = name) - 1

SKELETON_LABEL_CONNECTIONS ==
  << << "nose", "left_eye_inner" >>, << "nose", "right_eye_inner" >>,
     << "left_eye_inner", "left_eye" >>, << "left_eye", "left_eye_outer" >>,
     << "right_eye_inner", "right_eye" >>,
     << "right_eye", "right_eye_outer" >>,
     << "left_eye_outer", "left_ear" >>, << "right_eye_outer", "right_ear" >>,
     << "nose", "mouth_left" >>, << "nose", "mouth_right" >>,
     << "mouth_left", "mouth_right" >>,
     << "left_shoulder", "right_shoulder" >>,
     << "left_shoulder", "left_elbow" >>, << "left_elbow", "left_wrist" >>,
     << "left_wrist", "left_pinky" >>, << "left_wrist", "left_index" >>,
     << "left_wrist", "left_thumb" >>,
     << "right_shoulder", "right_elbow" >>,
     << "right_elbow", "right_wrist" >>, << "right_wrist", "right_pinky" >>,
     << "right_wrist", "right_index" >>, << "right_wrist", "right_thumb" >>,
     << "left_shoulder", "left_hip" >>, << "right_shoulder", "right_hip" >>,
     << "left_hip", "right_hip" >>, << "left_hip", "left_knee" >>,
     << "left_knee", "left_ankle" >>, << "left_ankle", "left_heel" >>,
     << "left_heel", "left_foot_index" >>, << "right_hip", "right_knee" >>,
     << "right_knee", "right_ankle" >>, << "right_ankle", "right_heel" >>,
     << "right_heel", "right_foot_index" >> >>

\* The pairs of positions the label pairs map to; a pair with a label the
\* table does not have is filtered out.
SKELETON_CONNECTIONS ==
  { << KEYPOINT_INDEX(c[1]), KEYPOINT_INDEX(c[2]) >> :
      c \in { SKELETON_LABEL_CONNECTIONS[k] :
                k \in { j \in 1..Len(SKELETON_LABEL_CONNECTIONS) :
                          /\ HasLabel(SKELETON_LABEL_CONNECTIONS[j][1])
                          /\ HasLabel(SKELETON_LABEL_CONNECTIONS[j][2]) } } }

\* videoElement.videoWidth / videoHeight: the size the camera is asked for.
videoWidth  == 960
videoHeight == 720

\* The default visibility threshold, 0.5, in thousandths.
threshold == 500

\* ------------------------------------------------------------ keypoints
Has(kp, f) == f \in DOMAIN kp

\* a ?? b on an optional field of a raw keypoint.
Field(kp, f, default) == IF Has(kp, f) THEN kp[f] ELSE default

\* The name line 194 resolves for the raw point at position i (0-based).
ResolvedName(kp, i) ==
  IF Has(kp, "name") THEN kp.name
  ELSE IF i < Len(KEYPOINT_LABELS) THEN LabelAt(i)
  ELSE "point_" \o ToString(i)

\* The names every object inherits from Object.prototype: KEYPOINT_INDEX
\* is a plain object, so KEYPOINT_INDEX[name] reads the inherited property
\* for these.
ObjectPrototypeNames ==
  { "constructor", "toString", "toLocaleString", "valueOf",
    "hasOwnProperty", "isPrototypeOf", "propertyIsEnumerable", "__proto__",
    "__defineGetter__", "__defineSetter__", "__lookupGetter__",
    "__lookupSetter__" }

\* KEYPOINT_INDEX[name] ?? fallbackIndex: the label's position, the
\* inherited property (not nullish, so it stays), or the fallback.
IndexOf(name, fallbackIndex) ==
  IF HasLabel(name) THEN KEYPOINT_INDEX(name)
  ELSE IF name \in ObjectPrototypeNames THEN [ inherited |-> name ]
  ELSE fallbackIndex

\* The entry line 196 stores for the raw point at position i.
MapEntry(kp, i) ==
  LET name == ResolvedName(kp, i)
  IN [ name  |-> name,
       index |-> IndexOf(name, i),
       x     |-> (Field(kp, "x", 0) * 1000) \div videoWidth,
       y     |-> (Field(kp, "y", 0) * 1000) \div videoHeight,
       z     |-> Field(kp, "z", 0),
       score |-> IF Has(kp, "score") THEN kp.score
                 ELSE Field(kp, "visibility", 0) ]

\* Mutant: the output is the map's entries in the order the raw points
\* came in, without the pass over the table.
normalizeKeypoints_noTable(keypoints) ==
  [ i \in 1..Len(keypoints) |-> MapEntry(keypoints[i], i - 1) ]

\* keypointMap.get(label) after the forEach: Map.set overwrites, so the
\* last raw point that resolves to the label wins.
normalizeKeypoints(keypoints) ==
  [ p \in 1..Len(KEYPOINT_LABELS) |->
      LET label == KEYPOINT_LABELS[p]
          hits  == { i \in 1..Len(keypoints) :
                       ResolvedName(keypoints[i], i - 1) = label }
      IN IF hits # {}
         THEN MapEntry(keypoints[CHOOSE i \in hits : \A j \in hits : j <= i],
                       (CHOOSE i \in hits : \A j \in hits : j <= i) - 1)
         ELSE [ name |-> label, index |-> p - 1,
                x |-> 0, y |-> 0, z |-> 0, score |-> 0 ] ]

\* The copy the recorder stores; see Keypoints below: a copy has the
\* content of its original, so it goes by the same name.
cloneKeypoints(keypoints) == keypoints

\* Mutant: the threshold is exclusive.
countVisibleKeypoints_exclusive(keypoints) ==
  Cardinality({ i \in 1..Len(keypoints) :
                  Field(keypoints[i], "score", 0) > threshold })

countVisibleKeypoints(keypoints) ==
  Cardinality({ i \in 1..Len(keypoints) :
                  Field(keypoints[i], "score", 0) >= threshold })

\* What an array read outside its bounds gives.
undefined == [ undefined |-> TRUE ]

\* array[index], index 0-based.
ElementAt(array, index) ==
  IF index + 1 \in DOMAIN array THEN array[index + 1] ELSE undefined

isKeypointVisible(keypoint) ==
  keypoint # undefined /\ Field(keypoint, "score", 0) >= threshold

\* x and y taken from thousandths of the frame to canvas pixels; the
\* canvas has the size of the video (syncCanvasSize).
scaleKeypoints(keypoints) ==
  [ i \in 1..Len(keypoints) |->
      [ keypoints[i] EXCEPT !.x = (@ * videoWidth) \div 1000,
                            !.y = (@ * videoHeight) \div 1000 ] ]

\* What drawSkeleton puts on the canvas: the connections it strokes and
\* the positions (0-based) of the points it fills.
drawSkeleton(keypoints) ==
  LET scaled == scaleKeypoints(keypoints)
  IN [ lines  |-> { c \in SKELETON_CONNECTIONS :
                      /\ isKeypointVisible(ElementAt(scaled, c[1]))
                      /\ isKeypointVisible(ElementAt(scaled, c[2])) },
       points |-> { i \in 0..(Len(scaled) - 1) :
                      isKeypointVisible(ElementAt(scaled, i)) } ]

\* The raw detections estimatePoses may hand to the loop: a full, named
\* pose with the upper body confident, and a short unnamed one that gives
\* "visibility" in place of "score".
FullPose ==
  [ i \in 1..Len(KEYPOINT_LABELS) |->
      [ name |-> KEYPOINT_LABELS[i], x |-> 96 * (i % 10), y |-> 72 * (i % 7),
        z |-> 0, score |-> IF i <= 23 THEN 900 ELSE 100 ] ]

ShortPose ==
  << [ x |-> 480, y |-> 360, visibility |-> 500 ],
     [ x |-> 96, y |-> 72, z |-> 5, visibility |-> 499 ] >>

\* A keypoint array is never written after normalizeKeypoints built it
\* (the recorder stores a copy made by cloneKeypoints), so the state names
\* an array by the detection it was normalised from: d in 1..Len(Detections),
\* and 0 where there is none.
Detections == << FullPose, ShortPose >>

RawKeypoints(d) == IF d = 0 THEN << >> ELSE Detections[d]

Normalized == [ d \in 1..Len(Detections) |-> normalizeKeypoints(Detections[d]) ]

\* The content of the array named d.
Keypoints(d) == IF d = 0 THEN << >> ELSE Normalized[d]

\* A canvas without strokes.
NoStrokes == [ lines |-> {}, points |-> {} ]

Skeletons == [ d \in 1..Len(Detections) |-> drawSkeleton(Normalized[d]) ]

\* What drawSkeleton strokes of the array named d.
Skeleton(d) == IF d = 0 THEN NoStrokes ELSE Skeletons[d]

\* ------------------------------------------------------------ state
VARIABLES
  recordedFrames,      \* sequence of [timestamp, keypoints], see Keypoints
  detector,            \* FALSE is null, TRUE is the created detector
  isRecording,
  isPlayingBack,
  playbackIndex,
  playbackTimeoutId,   \* null or the handle setTimeout returned last
  lastFrameTimestamp,  \* the clock value updateFrameRate read last
  clock,               \* the value performance.now() returned last
  initPc,              \* the await init() is suspended at, or how it ended
  timers,              \* pending setTimeout callbacks: [id, nextIndex, delay]
  videoReady,          \* videoElement.readyState >= 2
  rafPending,          \* poseLoop callbacks requestAnimationFrame holds
  awaiting,            \* poseLoop runs suspended at await estimatePoses
  disabled,            \* the "disabled" property of each control
  sliderValue,         \* Number(playbackSlider.value)
  sliderMax,           \* Number(playbackSlider.max)
  canvas,              \* what the overlay canvas was last filled with
  drawn,               \* the skeleton strokes on the canvas
  visibleCount,        \* visibleCountLabel
  table,               \* landmarkTableBody: the keypoints listed, 0 if none
  lastOp,              \* the handler that ran last
  rendered,            \* frames renderPlaybackFrame drew in the last step
  cancelled,           \* handles of pending timers the last step cleared
  detected,            \* the detection the last step's tick resumed with
  pushes,              \* detected-pose ticks that resumed while recording,
                       \* since startRecording or clearRecording last
                       \* emptied the buffer; 0 while not recording
  rawInput,            \* the raw list a call of normalizeKeypoints is given
  normalized,          \* what that call returned, << >> before the call
  edits                \* edits made to rawInput so far

vars ==
  << recordedFrames, detector, isRecording, isPlayingBack, playbackIndex,
     playbackTimeoutId, lastFrameTimestamp, clock, initPc, timers,
     videoReady, rafPending,
     awaiting, disabled, sliderValue, sliderMax, canvas, visibleCount, table,
     lastOp, rendered, cancelled, detected, pushes, rawInput, normalized,
     edits, drawn >>

null == 0

Controls ==
  { "recordToggleBtn", "stopRecordingBtn", "playRecordingBtn",
    "pausePlaybackBtn", "clearRecordingBtn", "playbackSlider" }

\* The state the playback / recording functions read and write, as one
\* record: S is the current state, and Commit(s) makes s the next one.
S ==
  [ recordedFrames    |-> recordedFrames,
    isRecording       |-> isRecording,
    isPlayingBack     |-> isPlayingBack,
    playbackIndex     |-> playbackIndex,
    playbackTimeoutId |-> playbackTimeoutId,
    timers            |-> timers,
    disabled          |-> disabled,
    sliderValue       |-> sliderValue,
    sliderMax         |-> sliderMax,
    canvas            |-> canvas,
    drawn             |-> drawn,
    visibleCount      |-> visibleCount,
    table             |-> table,
    rendered          |-> << >>,
    cancelled         |-> {},
    detected          |-> 0 ]

Commit(s) ==
  /\ recordedFrames'    = s.recordedFrames
  /\ isRecording'       = s.isRecording
  /\ isPlayingBack'     = s.isPlayingBack
  /\ playbackIndex'     = s.playbackIndex
  /\ playbackTimeoutId' = s.playbackTimeoutId
  /\ timers'            = s.timers
  /\ disabled'          = s.disabled
  /\ sliderValue'       = s.sliderValue
  /\ sliderMax'         = s.sliderMax
  /\ canvas'            = s.canvas
  /\ drawn'             = s.drawn
  /\ visibleCount'      = s.visibleCount
  /\ table'             = s.table
  /\ rendered'          = s.rendered
  /\ cancelled'         = s.cancelled
  /\ detected'          = s.detected

Max(a, b) == IF a >= b THEN a ELSE b

\* ------------------------------------------------------------ timers
\* clearTimeout(id): drops the pending callback with that handle, if any.
clearTimeout(s, id) ==
  [ s EXCEPT !.timers    = { t \in @ : t.id # id },
             !.cancelled = @ \cup { t.id : t \in { u \in s.timers : u.id = id } } ]

\* Handles are opaque and a browser never hands out one that is still in
\* use; the model draws the least handle that neither names a pending
\* callback nor is the one playbackTimeoutId still holds.
FreshTimerIds(s) ==
  { i \in 1..MaxTimers :
      /\ i # s.playbackTimeoutId
      /\ \A t \in s.timers : t.id # i }

\* playbackTimeoutId = setTimeout(callback closing over nextIndex, delay)
setTimeout(s, nextIndex, delay) ==
  LET id == CHOOSE i \in FreshTimerIds(s) : \A j \in FreshTimerIds(s) : i <= j
  IN [ s EXCEPT !.timers = @ \cup { [ id |-> id, nextIndex |-> nextIndex,
                                      delay |-> delay ] },
                !.playbackTimeoutId = id ]

\* ------------------------------------------------------------ rendering
\* renderPlaybackFrame(recordedFrames[index]); an index outside the array
\* reads undefined, and the function returns at once.
renderPlaybackFrame(s, index) ==
  IF index + 1 \notin DOMAIN s.recordedFrames THEN s
  ELSE LET frame == s.recordedFrames[index + 1]
       IN [ s EXCEPT !.canvas = [ kind |-> "playback",
                                  keypoints |-> frame.keypoints ],
                     !.drawn = Skeleton(frame.keypoints),
                     !.visibleCount =
                        countVisibleKeypoints(Keypoints(frame.keypoints)),
                     !.table = frame.keypoints,
                     !.rendered = Append(@, frame) ]

\* ------------------------------------------------------------ playback
\* Mutant: the flag is lowered but the pending timer is left alone.
pausePlayback_noClear(s) ==
  IF ~ s.isPlayingBack THEN s
  ELSE [ s EXCEPT
           !.isPlayingBack = FALSE,
           !.disabled = [ @ EXCEPT
              !["playRecordingBtn"]  = (Len(s.recordedFrames) = 0),
              !["pausePlaybackBtn"]  = TRUE,
              !["clearRecordingBtn"] = (Len(s.recordedFrames) = 0),
              !["recordToggleBtn"]   = FALSE ],
           !.playbackTimeoutId = null ]

\* Mutant: pausing also rewinds the cursor.
pausePlayback_rewind(s) ==
  IF ~ s.isPlayingBack THEN s
  ELSE LET s1 == [ s EXCEPT
                     !.isPlayingBack = FALSE,
                     !.playbackIndex = 0,
                     !.disabled = [ @ EXCEPT
                        !["playRecordingBtn"]  = (Len(s.recordedFrames) = 0),
                        !["pausePlaybackBtn"]  = TRUE,
                        !["clearRecordingBtn"] = (Len(s.recordedFrames) = 0),
                        !["recordToggleBtn"]   = FALSE ] ]
       IN [ clearTimeout(s1, s1.playbackTimeoutId)
              EXCEPT !.playbackTimeoutId = null ]

pausePlayback(s) ==
  IF ~ s.isPlayingBack THEN s
  ELSE LET s1 == [ s EXCEPT
                     !.isPlayingBack = FALSE,
                     !.disabled = [ @ EXCEPT
                        !["playRecordingBtn"]  = (Len(s.recordedFrames) = 0),
                        !["pausePlaybackBtn"]  = TRUE,
                        !["clearRecordingBtn"] = (Len(s.recordedFrames) = 0),
                        !["recordToggleBtn"]   = FALSE ] ]
       IN [ clearTimeout(s1, s1.playbackTimeoutId)
              EXCEPT !.playbackTimeoutId = null ]

finishPlayback(s) ==
  LET s1 == pausePlayback(s)
      last == Len(s1.recordedFrames) - 1
  IN IF Len(s1.recordedFrames) # 0
     THEN renderPlaybackFrame(
            [ s1 EXCEPT !.playbackIndex = last, !.sliderValue = last ], last)
     ELSE s1

\* Mutant: the delay is the next frame's timestamp, not the difference.
scheduleNextPlaybackFrame_absDelay(s) ==
  LET s1 == clearTimeout(s, s.playbackTimeoutId)
      nextIndex == s1.playbackIndex + 1
  IN IF ~ s1.isPlayingBack THEN s1
     ELSE IF nextIndex >= Len(s1.recordedFrames) THEN finishPlayback(s1)
     ELSE setTimeout(s1, nextIndex,
                     Max(0, s1.recordedFrames[nextIndex + 1].timestamp))

\* Mutant: at the last frame the chain just stops, without finishPlayback.
scheduleNextPlaybackFrame_noFinish(s) ==
  LET s1 == clearTimeout(s, s.playbackTimeoutId)
      nextIndex == s1.playbackIndex + 1
  IN IF ~ s1.isPlayingBack THEN s1
     ELSE IF nextIndex >= Len(s1.recordedFrames) THEN s1
     ELSE setTimeout(s1, nextIndex,
            Max(0, s1.recordedFrames[nextIndex + 1].timestamp
                     - s1.recordedFrames[s1.playbackIndex + 1].timestamp))

scheduleNextPlaybackFrame(s) ==
  LET s1 == clearTimeout(s, s.playbackTimeoutId)
      nextIndex == s1.playbackIndex + 1
  IN IF ~ s1.isPlayingBack THEN s1
     ELSE IF nextIndex >= Len(s1.recordedFrames) THEN finishPlayback(s1)
     ELSE LET currentTimestamp == s1.recordedFrames[s1.playbackIndex + 1].timestamp
              nextTimestamp    == s1.recordedFrames[nextIndex + 1].timestamp
              delay            == Max(0, nextTimestamp - currentTimestamp)
          IN setTimeout(s1, nextIndex, delay)

\* The callback scheduleNextPlaybackFrame hands to setTimeout.
playbackTimerCallback(s, nextIndex) ==
  IF ~ s.isPlayingBack THEN s
  ELSE scheduleNextPlaybackFrame(
         [ renderPlaybackFrame([ s EXCEPT !.playbackIndex = nextIndex ],
                               nextIndex)
             EXCEPT !.sliderValue = nextIndex ])

\* Mutant: playback starts without looking at the buffer's length.
startPlayback_noGuard(s) ==
  LET s1 == [ s EXCEPT
                !.isPlayingBack = TRUE,
                !.playbackIndex = 0,
                !.disabled = [ @ EXCEPT
                   !["playRecordingBtn"]  = TRUE,
                   !["pausePlaybackBtn"]  = FALSE,
                   !["clearRecordingBtn"] = TRUE,
                   !["recordToggleBtn"]   = TRUE,
                   !["stopRecordingBtn"]  = TRUE,
                   !["playbackSlider"]    = FALSE ],
                !.sliderValue = 0 ]
  IN scheduleNextPlaybackFrame(renderPlaybackFrame(s1, s1.playbackIndex))

startPlayback(s) ==
  IF Len(s.recordedFrames) = 0 THEN s
  ELSE LET s1 == [ s EXCEPT
                     !.isPlayingBack = TRUE,
                     !.playbackIndex = 0,
                     !.disabled = [ @ EXCEPT
                        !["playRecordingBtn"]  = TRUE,
                        !["pausePlaybackBtn"]  = FALSE,
                        !["clearRecordingBtn"] = TRUE,
                        !["recordToggleBtn"]   = TRUE,
                        !["stopRecordingBtn"]  = TRUE,
                        !["playbackSlider"]    = FALSE ],
                     !.sliderValue = 0 ]
       IN scheduleNextPlaybackFrame(renderPlaybackFrame(s1, s1.playbackIndex))

\* Mutant: the seek moves the cursor and draws, but does not pause.
sliderInput_noPause(s, index) ==
  IF Len(s.recordedFrames) = 0 THEN s
  ELSE renderPlaybackFrame([ s EXCEPT !.playbackIndex = index ], index)

\* The slider's "input" listener; index is Number(playbackSlider.value).
sliderInput(s, index) ==
  IF Len(s.recordedFrames) = 0 THEN s
  ELSE LET s1 == pausePlayback([ s EXCEPT !.playbackIndex = index ])
       IN renderPlaybackFrame(s1, s1.playbackIndex)

\* ------------------------------------------------------------ recording
\* Mutant: the play button is left as it was.
startRecording_playEnabled(s) ==
  LET s1 == IF s.isPlayingBack THEN pausePlayback(s) ELSE s
  IN [ s1 EXCEPT
         !.recordedFrames = << >>,
         !.isRecording = TRUE,
         !.disabled = [ @ EXCEPT
            !["recordToggleBtn"]   = TRUE,
            !["stopRecordingBtn"]  = FALSE,
            !["clearRecordingBtn"] = TRUE,
            !["playbackSlider"]    = TRUE ],
         !.sliderValue = 0,
         !.sliderMax = 0 ]

startRecording(s) ==
  LET s1 == IF s.isPlayingBack THEN pausePlayback(s) ELSE s
  IN [ s1 EXCEPT
         !.recordedFrames = << >>,
         !.isRecording = TRUE,
         !.disabled = [ @ EXCEPT
            !["recordToggleBtn"]   = TRUE,
            !["stopRecordingBtn"]  = FALSE,
            !["clearRecordingBtn"] = TRUE,
            !["playRecordingBtn"]  = TRUE,
            !["playbackSlider"]    = TRUE ],
         !.sliderValue = 0,
         !.sliderMax = 0 ]

\* Mutant: stopping also throws the recording away.
stopRecording_clears(s) ==
  IF ~ s.isRecording THEN s
  ELSE [ s EXCEPT
           !.recordedFrames = << >>,
           !.isRecording = FALSE,
           !.disabled = [ @ EXCEPT
              !["recordToggleBtn"]   = FALSE,
              !["stopRecordingBtn"]  = TRUE,
              !["clearRecordingBtn"] = TRUE,
              !["playRecordingBtn"]  = TRUE,
              !["playbackSlider"]    = TRUE ],
           !.sliderMax = 0,
           !.sliderValue = 0 ]

stopRecording(s) ==
  IF ~ s.isRecording THEN s
  ELSE [ s EXCEPT
           !.isRecording = FALSE,
           !.disabled = [ @ EXCEPT
              !["recordToggleBtn"]   = FALSE,
              !["stopRecordingBtn"]  = TRUE,
              !["clearRecordingBtn"] = (Len(s.recordedFrames) = 0),
              !["playRecordingBtn"]  = (Len(s.recordedFrames) = 0),
              !["playbackSlider"]    = (Len(s.recordedFrames) = 0) ],
           !.sliderMax = Max(0, Len(s.recordedFrames) - 1),
           !.sliderValue = 0 ]

\* Mutant: the buffer is emptied without pausing playback first.
clearRecording_noPause(s) ==
  [ s EXCEPT
      !.recordedFrames = << >>,
      !.sliderValue = 0,
      !.sliderMax = 0,
      !.disabled = [ @ EXCEPT
         !["playbackSlider"]    = TRUE,
         !["playRecordingBtn"]  = TRUE,
         !["clearRecordingBtn"] = TRUE ] ]

clearRecording(s) ==
  LET s1 == pausePlayback(s)
  IN [ s1 EXCEPT
         !.recordedFrames = << >>,
         !.sliderValue = 0,
         !.sliderMax = 0,
         !.disabled = [ @ EXCEPT
            !["playbackSlider"]    = TRUE,
            !["playRecordingBtn"]  = TRUE,
            !["clearRecordingBtn"] = TRUE ] ]

\* The record toggle's click listener.
recordToggle(s) ==
  IF ~ s.isRecording THEN startRecording(s) ELSE stopRecording(s)

\* ------------------------------------------------------------ live loop
clearCanvas(s) ==
  [ s EXCEPT !.canvas = [ kind |-> "clear", keypoints |-> 0 ],
             !.drawn = NoStrokes ]

drawLiveOverlay(s, keypoints) ==
  [ s EXCEPT !.canvas = [ kind |-> "live", keypoints |-> keypoints ],
             !.drawn = Skeleton(keypoints) ]

updateVisibleCount(s, count) == [ s EXCEPT !.visibleCount = count ]

updateTable(s, keypoints) == [ s EXCEPT !.table = keypoints ]

clearTable(s) == [ s EXCEPT !.table = 0 ]

\* What one estimatePoses call may resolve to: no pose (0), or one of the
\* detections.
DetectionResults == 0..Len(Detections)

\* Mutant: the live display is updated whether or not playback runs.
poseLoopResume_drawAlways(s0, d, now) ==
  LET s == [ s0 EXCEPT !.detected = d ]
  IN
  IF Len(RawKeypoints(d)) = 0
  THEN clearCanvas(clearTable(updateVisibleCount(s, 0)))
  ELSE LET keypoints == d
           s1 == IF s.isRecording
                 THEN [ s EXCEPT !.recordedFrames =
                          Append(@, [ timestamp |-> now,
                                      keypoints |-> cloneKeypoints(keypoints) ]) ]
                 ELSE s
       IN updateTable(
            updateVisibleCount(drawLiveOverlay(s1, keypoints),
                               countVisibleKeypoints(Keypoints(keypoints))),
            keypoints)

\* Mutant: the frame is pushed whether or not a recording runs.
poseLoopResume_pushAlways(s0, d, now) ==
  LET s == [ s0 EXCEPT !.detected = d ]
  IN
  IF Len(RawKeypoints(d)) = 0
  THEN IF ~ s.isPlayingBack
       THEN clearCanvas(clearTable(updateVisibleCount(s, 0)))
       ELSE s
  ELSE LET keypoints == d
           s1 == [ s EXCEPT !.recordedFrames =
                     Append(@, [ timestamp |-> now,
                                 keypoints |-> cloneKeypoints(keypoints) ]) ]
       IN IF ~ s1.isPlayingBack
          THEN updateTable(
                 updateVisibleCount(drawLiveOverlay(s1, keypoints),
                                    countVisibleKeypoints(Keypoints(keypoints))),
                 keypoints)
          ELSE s1

\* poseLoop from the line after updateFrameRate to its end; d is what the
\* detector found (RawKeypoints(d) is poses[0].keypoints), now what
\* performance.now() returns at line 174.
poseLoopResume(s0, d, now) ==
  LET s == [ s0 EXCEPT !.detected = d ]
  IN
  IF Len(RawKeypoints(d)) = 0
  THEN IF ~ s.isPlayingBack
       THEN clearCanvas(clearTable(updateVisibleCount(s, 0)))
       ELSE s
  ELSE LET keypoints == d
           s1 == IF s.isRecording
                 THEN [ s EXCEPT !.recordedFrames =
                          Append(@, [ timestamp |-> now,
                                      keypoints |-> cloneKeypoints(keypoints) ]) ]
                 ELSE s
       IN IF ~ s1.isPlayingBack
          THEN updateTable(
                 updateVisibleCount(drawLiveOverlay(s1, keypoints),
                                    countVisibleKeypoints(Keypoints(keypoints))),
                 keypoints)
          ELSE s1

\* ------------------------------------------------------------ initial state
\* The "disabled" attributes the handlers themselves give the controls in
\* the state the page loads in (not recording, not playing, nothing
\* recorded): only the record toggle is live.
IdleDisabled == [ c \in Controls |-> c # "recordToggleBtn" ]

\* The module-level declarations, before init() has got anywhere; d is the
\* "disabled" attribute of each control in the page's markup.
InitWith(d) ==
  /\ recordedFrames = << >>
  /\ detector = FALSE
  /\ isRecording = FALSE
  /\ isPlayingBack = FALSE
  /\ playbackIndex = 0
  /\ playbackTimeoutId = null
  /\ lastFrameTimestamp = 0
  /\ clock = 0
  /\ initPc = "setBackend"
  /\ timers = {}
  /\ videoReady = FALSE
  /\ rafPending = 0
  /\ awaiting = 0
  /\ disabled = d
  /\ sliderValue = 0
  /\ sliderMax = 0
  /\ canvas = [ kind |-> "clear", keypoints |-> 0 ]
  /\ drawn = NoStrokes
  /\ visibleCount = 0
  /\ table = 0
  /\ lastOp = "load"
  /\ rendered = << >>
  /\ cancelled = {}
  /\ detected = 0
  /\ pushes = 0

\* The page calls normalizeKeypoints inside the live loop only, on the
\* detections above; the variables of a call on its own stay at rest.
NoCall == rawInput = << >> /\ normalized = << >> /\ edits = 0

CallUnchanged == UNCHANGED << rawInput, normalized, edits >>

\* Spec calls the functions whatever "disabled" says, so the markup is
\* immaterial there.
Init == InitWith(IdleDisabled) /\ NoCall

\* The markup is not part of the script: any combination may be loaded.
InitUI == (\E d \in [ Controls -> BOOLEAN ] : InitWith(d)) /\ NoCall

LoopUnchanged ==
  /\ UNCHANGED << detector, lastFrameTimestamp, clock, initPc, videoReady,
                  rafPending, awaiting >>
  /\ CallUnchanged

\* The pool still has a handle for the timer a playback step may set.
TimerRoom == Cardinality(timers) + 1 < MaxTimers

\* ------------------------------------------------------------ actions
\* The steps of init() and of the loop leave the recorder, the playback
\* and the display as they are.
HandlersUnchanged ==
  /\ UNCHANGED << recordedFrames, isRecording, isPlayingBack, playbackIndex,
                  playbackTimeoutId, timers, disabled, sliderValue, sliderMax,
                  canvas, drawn, visibleCount, table, pushes >>
  /\ rendered' = << >>
  /\ cancelled' = {}
  /\ detected' = 0
  /\ CallUnchanged

\* init() returns to the event loop at each of its awaits, and the
\* listeners may run in between.  Line 119: tf.setBackend resolves.
InitBackend ==
  /\ initPc = "setBackend"
  /\ initPc' = "ready"
  /\ lastOp' = "init"
  /\ UNCHANGED << detector, videoReady, rafPending, awaiting,
                  lastFrameTimestamp, clock >>
  /\ HandlersUnchanged

\* Line 120: tf.ready resolves.
InitReady ==
  /\ initPc = "ready"
  /\ initPc' = "createDetector"
  /\ lastOp' = "init"
  /\ UNCHANGED << detector, videoReady, rafPending, awaiting,
                  lastFrameTimestamp, clock >>
  /\ HandlersUnchanged

\* Line 121: createDetector resolves and detector is assigned; init() goes
\* on into startCamera and stops at getUserMedia.
InitDetector ==
  /\ initPc = "createDetector"
  /\ initPc' = "getUserMedia"
  /\ detector' = TRUE
  /\ lastOp' = "init"
  /\ UNCHANGED << videoReady, rafPending, awaiting, lastFrameTimestamp,
                  clock >>
  /\ HandlersUnchanged

\* Lines 132-140: getUserMedia resolves, the stream is attached and
\* startCamera stops at videoElement.play().
InitStream ==
  /\ initPc = "getUserMedia"
  /\ initPc' = "play"
  /\ lastOp' = "init"
  /\ UNCHANGED << detector, videoReady, rafPending, awaiting,
                  lastFrameTimestamp, clock >>
  /\ HandlersUnchanged

\* One of the first three awaits rejects: init() ends there, and the loop
\* is never started.
InitFail ==
  /\ initPc \in { "setBackend", "ready", "createDetector" }
  /\ initPc' = "failed"
  /\ lastOp' = "init"
  /\ UNCHANGED << detector, videoReady, rafPending, awaiting,
                  lastFrameTimestamp, clock >>
  /\ HandlersUnchanged

\* startCamera returns (getUserMedia rejected and the failure was caught,
\* or play() settled) and line 127 requests the first animation frame.
InitDone ==
  /\ initPc \in { "getUserMedia", "play" }
  /\ initPc' = "done"
  /\ videoReady' \in IF initPc = "play" THEN BOOLEAN ELSE { FALSE }
  /\ rafPending' = rafPending + 1
  /\ lastOp' = "init"
  /\ UNCHANGED << detector, awaiting, lastFrameTimestamp, clock >>
  /\ HandlersUnchanged

\* An animation frame runs poseLoop up to its await (or to its early
\* return, which re-arms it).
PoseLoopFrame ==
  /\ rafPending > 0
  /\ IF ~ detector \/ ~ videoReady
     THEN /\ rafPending' = (rafPending - 1) + 1
          /\ awaiting' = awaiting
     ELSE /\ rafPending' = rafPending - 1
          /\ awaiting' = awaiting + 1
  /\ lastOp' = "poseLoop"
  /\ UNCHANGED << detector, videoReady, lastFrameTimestamp, clock, initPc >>
  /\ HandlersUnchanged

\* estimatePoses resolves and poseLoop runs to its end, re-arming itself.
\* The clock is read in updateFrameRate (now) and, when a frame is pushed,
\* once more for its timestamp (stamp).
PoseLoopResume ==
  /\ awaiting > 0
  /\ \E d \in DetectionResults, now \in clock..MaxTime :
       \E stamp \in IF isRecording /\ d # 0 THEN now..MaxTime ELSE { now } :
         /\ (isRecording /\ d # 0) => Len(recordedFrames) < MaxFrames
         /\ Commit(poseLoopResume(S, d, stamp))
         /\ lastFrameTimestamp' = now
         /\ clock' = stamp
         /\ pushes' = IF isRecording /\ d # 0 THEN pushes + 1 ELSE pushes
  /\ awaiting' = awaiting - 1
  /\ rafPending' = rafPending + 1
  /\ lastOp' = "poseLoopResume"
  /\ UNCHANGED << detector, videoReady, initPc >>
  /\ CallUnchanged

\* The await is not in a try: when estimatePoses rejects, the run ends at
\* line 153; when it resolves to something that has no length (null), the
\* run ends at line 160, after updateFrameRate.  Either way no frame is
\* requested, and none is pending or suspended any more.
PoseLoopThrow ==
  /\ awaiting > 0
  /\ awaiting' = awaiting - 1
  /\ \/ UNCHANGED << lastFrameTimestamp, clock >>
     \/ \E now \in clock..MaxTime :
          lastFrameTimestamp' = now /\ clock' = now
  /\ lastOp' = "poseLoopThrow"
  /\ UNCHANGED << detector, videoReady, rafPending, initPc >>
  /\ HandlersUnchanged

\* A pending playback timer fires.
PlaybackTimerFire ==
  /\ TimerRoom
  /\ \E t \in timers :
       Commit(playbackTimerCallback([ S EXCEPT !.timers = @ \ { t } ],
                                    t.nextIndex))
  /\ lastOp' = "playbackTimer"
  /\ UNCHANGED pushes
  /\ LoopUnchanged

StartRecording ==
  /\ Commit(startRecording(S))
  /\ lastOp' = "startRecording"
  /\ pushes' = 0
  /\ LoopUnchanged

StopRecording ==
  /\ Commit(stopRecording(S))
  /\ lastOp' = "stopRecording"
  /\ pushes' = 0
  /\ LoopUnchanged

StartPlayback ==
  /\ TimerRoom
  /\ Commit(startPlayback(S))
  /\ lastOp' = "startPlayback"
  /\ UNCHANGED pushes
  /\ LoopUnchanged

PausePlayback ==
  /\ Commit(pausePlayback(S))
  /\ lastOp' = "pausePlayback"
  /\ UNCHANGED pushes
  /\ LoopUnchanged

ClearRecording ==
  /\ Commit(clearRecording(S))
  /\ lastOp' = "clearRecording"
  /\ pushes' = 0
  /\ LoopUnchanged

\* An "input" event on the slider with its value at index.
SliderInput(index) ==
  /\ Commit(sliderInput([ S EXCEPT !.sliderValue = index ], index))
  /\ lastOp' = "sliderInput"
  /\ UNCHANGED pushes
  /\ LoopUnchanged

\* The functions behind the controls, called in any order and state.
Next ==
  \/ InitBackend
  \/ InitReady
  \/ InitDetector
  \/ InitStream
  \/ InitFail
  \/ InitDone
  \/ PoseLoopFrame
  \/ PoseLoopResume
  \/ PoseLoopThrow
  \/ PlaybackTimerFire
  \/ StartRecording
  \/ StopRecording
  \/ StartPlayback
  \/ PausePlayback
  \/ ClearRecording
  \/ \E index \in 0..MaxFrames : SliderInput(index)

Spec == Init /\ [][Next]_vars

\* The page as a user drives it: a control delivers its event only while
\* it is not disabled, and the slider's value lies in [0, max].
ClickRecordToggle ==
  /\ ~ disabled["recordToggleBtn"]
  /\ Commit(recordToggle(S))
  /\ lastOp' = IF isRecording THEN "stopRecording" ELSE "startRecording"
  /\ pushes' = 0
  /\ LoopUnchanged

ClickStopRecording == ~ disabled["stopRecordingBtn"] /\ StopRecording

ClickPlayRecording == ~ disabled["playRecordingBtn"] /\ StartPlayback

ClickPausePlayback == ~ disabled["pausePlaybackBtn"] /\ PausePlayback

ClickClearRecording == ~ disabled["clearRecordingBtn"] /\ ClearRecording

DragSlider ==
  /\ ~ disabled["playbackSlider"]
  /\ \E index \in 0..sliderMax : SliderInput(index)

NextUI ==
  \/ InitBackend
  \/ InitReady
  \/ InitDetector
  \/ InitStream
  \/ InitFail
  \/ InitDone
  \/ PoseLoopFrame
  \/ PoseLoopResume
  \/ PoseLoopThrow
  \/ PlaybackTimerFire
  \/ ClickRecordToggle
  \/ ClickStopRecording
  \/ ClickPlayRecording
  \/ ClickPausePlayback
  \/ ClickClearRecording
  \/ DragSlider

SpecUI == InitUI /\ [][NextUI]_vars

\* The browser runs a timer that stays pending: weak fairness of
\* PlaybackTimerFire.  TimerEnabled is ENABLED <<PlaybackTimerFire>>_vars
\* (the action's guard; a firing always changes timers or the cursor), and
\* TimerFairness is WF_vars(PlaybackTimerFire) with that written out.
TimerEnabled == TimerRoom /\ timers # {}

TimerFairness ==
  []<>(~ TimerEnabled) \/ []<><<PlaybackTimerFire>>_vars

FairSpecUI == SpecUI /\ TimerFairness

\* ------------------------------------------------------------ one call
\* One detection taken through normalizeKeypoints, drawSkeleton and
\* countVisibleKeypoints as poseLoop does it, for more raw lists than the
\* page's specifications carry: the raw list starts as one of the lists
\* below (empty, short, full, reordered, with labels missing, without
\* names, longer than the table) and is edited point by point (duplicate,
\* unknown, inherited and missing names, points without a score) before
\* the call.
Reversed(s) == [ i \in 1..Len(s) |-> s[Len(s) + 1 - i] ]

\* n points without a name, every second one at the threshold.
Unnamed(n) ==
  [ i \in 1..n |->
      [ x |-> 96 * (i % 10), y |-> 72 * (i % 7),
        visibility |-> IF i % 2 = 0 THEN threshold ELSE threshold - 1 ] ]

BaseLists ==
  { << >>, ShortPose, FullPose, Reversed(FullPose), SubSeq(FullPose, 5, 14),
    Unnamed(Len(KEYPOINT_LABELS)), Unnamed(Len(KEYPOINT_LABELS) + 2) }

\* The points an edit may put into the list: a second "nose", a name the
\* table does not have, a name every object has, a point without a name,
\* a label without a score.
RawPoints ==
  { [ name |-> "nose", x |-> 96, y |-> 72, z |-> 1, score |-> 700 ],
    [ name |-> "tail", x |-> 96, y |-> 72, z |-> 1, score |-> 900 ],
    [ name |-> "constructor", x |-> 96, y |-> 72, score |-> 900 ],
    [ x |-> 480, y |-> 360, visibility |-> threshold ],
    [ name |-> "right_foot_index", x |-> 192, y |-> 144 ] }

\* None of the three functions writes the module state.
PageUnchanged ==
  UNCHANGED << recordedFrames, detector, isRecording, isPlayingBack,
               playbackIndex, playbackTimeoutId, lastFrameTimestamp, timers,
               videoReady, rafPending, awaiting, initPc, clock, disabled,
               sliderValue, sliderMax, rendered, cancelled, detected,
               pushes >>

DisplayUnchanged == UNCHANGED << canvas, drawn, visibleCount, table >>

InitNormalize ==
  /\ InitWith(IdleDisabled)
  /\ rawInput \in BaseLists
  /\ normalized = << >>
  /\ edits = 0

\* Before the call one more point is put into the argument: appended, or
\* in place of the first or of the last point.
EditRaw ==
  /\ normalized = << >>
  /\ edits < MaxEdits
  /\ \E kp \in RawPoints :
       \/ rawInput' = Append(rawInput, kp)
       \/ rawInput # << >> /\ rawInput' = [ rawInput EXCEPT ![1] = kp ]
       \/ rawInput # << >>
            /\ rawInput' = [ rawInput EXCEPT ![Len(rawInput)] = kp ]
  /\ edits' = edits + 1
  /\ lastOp' = "editRaw"
  /\ UNCHANGED normalized
  /\ DisplayUnchanged
  /\ PageUnchanged

\* Before the call the first point is taken out, which moves every point
\* without a name to the label before.
DropFirst ==
  /\ normalized = << >>
  /\ edits < MaxEdits
  /\ rawInput # << >>
  /\ rawInput' = Tail(rawInput)
  /\ edits' = edits + 1
  /\ lastOp' = "editRaw"
  /\ UNCHANGED normalized
  /\ DisplayUnchanged
  /\ PageUnchanged

\* Line 170: keypoints = normalizeKeypoints(poses[0].keypoints).
Normalize ==
  /\ normalized = << >>
  /\ normalized' = normalizeKeypoints(rawInput)
  /\ lastOp' = "normalizeKeypoints"
  /\ UNCHANGED << rawInput, edits >>
  /\ DisplayUnchanged
  /\ PageUnchanged

\* Lines 181-183 on the list line 170 returned: the overlay is cleared and
\* filled with the video frame and the skeleton, the count is written to
\* the label and the list to the table.  The list is shown here by value.
DrawNormalized ==
  /\ lastOp = "normalizeKeypoints"
  /\ canvas' = [ kind |-> "live", keypoints |-> normalized ]
  /\ drawn' = drawSkeleton(normalized)
  /\ visibleCount' = countVisibleKeypoints(normalized)
  /\ table' = normalized
  /\ lastOp' = "drawNormalized"
  /\ UNCHANGED << rawInput, normalized, edits >>
  /\ PageUnchanged

NextNormalize == EditRaw \/ DropFirst \/ Normalize \/ DrawNormalized

SpecNormalize == InitNormalize /\ [][NextNormalize]_vars

\* ------------------------------------------------------------ properties
\* The handlers a user action runs (the rest are the browser's callbacks).
UserOps ==
  { "startRecording", "stopRecording", "startPlayback", "pausePlayback",
    "clearRecording", "sliderInput" }

FrameCount == Len(recordedFrames)

\* C1: a slider input with an index k in [0, len-1], arriving while
\* playback is active and its advance timer pending, cancels that timer,
\* leaves isPlayingBack false and playbackIndex = k, and draws frame k
\* exactly once; and while playback is not active no callback of the
\* browser (timer or pose loop) moves the cursor or draws a recorded frame.
C1_SeekDuringPlayback ==
  [][ /\ ( /\ lastOp' = "sliderInput"
           /\ isPlayingBack
           /\ timers # {}
           /\ sliderValue' \in 0..(FrameCount - 1) )
         => /\ timers' = {}
            /\ cancelled' = { t.id : t \in timers }
            /\ ~ isPlayingBack'
            /\ playbackIndex' = sliderValue'
            /\ rendered' = << recordedFrames[sliderValue' + 1] >>
      /\ ( ~ isPlayingBack /\ lastOp' \notin UserOps )
         => /\ playbackIndex' = playbackIndex
            /\ rendered' = << >> ]_vars

\* A seek to frame 1 has just cancelled the pending advance of a playback.
C1_Witness ==
  /\ lastOp = "sliderInput"
  /\ cancelled # {}
  /\ ~ isPlayingBack
  /\ playbackIndex = 1
  /\ rendered = << recordedFrames[2] >>

\* C2: whatever functions were called and whatever fired, at most one
\* playback advance is pending, it is the one playbackTimeoutId names, and
\* one is pending only while isPlayingBack is true.
C2_OneTimerOnlyWhilePlaying ==
  /\ Cardinality(timers) <= 1
  /\ \A t \in timers : isPlayingBack /\ t.id = playbackTimeoutId

\* startPlayback called during playback: the old advance was cancelled and
\* a new one is pending.
C2_Witness ==
  /\ lastOp = "startPlayback"
  /\ cancelled # {}
  /\ Cardinality(timers) = 1

\* C3: startPlayback on a non-empty recording draws frame 0 first; every
\* firing of the advance timer moves the cursor forward by exactly one and
\* draws the frame it lands on; and the pending advance from index i to
\* i + 1 carries the delay max(0, timestamp[i+1] - timestamp[i]).
C3_PlaybackOrderAndDelay ==
  /\ [] ( /\ \A t \in timers :
               /\ t.nextIndex = playbackIndex + 1
               /\ t.nextIndex < FrameCount
               /\ LET gap == recordedFrames[t.nextIndex + 1].timestamp
                               - recordedFrames[t.nextIndex].timestamp
                  IN t.delay = IF gap > 0 THEN gap ELSE 0
          /\ (lastOp = "startPlayback" /\ FrameCount > 0)
               => /\ rendered # << >>
                  /\ rendered[1] = recordedFrames[1]
                  /\ isPlayingBack => playbackIndex = 0 /\ Len(rendered) = 1 )
  /\ [][ lastOp' = "playbackTimer"
           => /\ playbackIndex' = playbackIndex + 1
              /\ playbackIndex' < FrameCount
              /\ rendered' # << >>
              /\ \A i \in 1..Len(rendered') :
                   rendered'[i] = recordedFrames[playbackIndex' + 1]
              /\ isPlayingBack' => Len(rendered') = 1 ]_vars

\* A firing moved the cursor from 0 to 1 of a three-frame recording, drew
\* frame 1, and scheduled the advance to frame 2 after a 1 ms gap.
C3_Witness ==
  /\ lastOp = "playbackTimer"
  /\ FrameCount = 3
  /\ playbackIndex = 1
  /\ rendered = << recordedFrames[2] >>
  /\ \E t \in timers : t.nextIndex = 2 /\ t.delay = 1

\* What ends a playback other than its own finish.
Interrupts ==
  { "pausePlayback", "sliderInput", "clearRecording", "startRecording" }

\* C4: a playback that is active stops: either one of pause, seek, clear
\* and start-recording ended it, or it has finished with isPlayingBack
\* false, no timer pending and the cursor on the last frame; and on a
\* one-frame recording startPlayback finishes at once, with no timer set.
C4_PlaybackTerminates ==
  /\ isPlayingBack
       ~> ( /\ ~ isPlayingBack
            /\ timers = {}
            /\ lastOp \in Interrupts \/ playbackIndex = FrameCount - 1 )
  /\ [] ( (lastOp = "startPlayback" /\ FrameCount = 1)
            => /\ ~ isPlayingBack
               /\ timers = {}
               /\ playbackTimeoutId = null
               /\ playbackIndex = 0 )

\* The last firing of a three-frame playback has finished it.
C4_Witness ==
  /\ lastOp = "playbackTimer"
  /\ FrameCount = 3
  /\ ~ isPlayingBack
  /\ timers = {}
  /\ playbackIndex = 2

\* Playback has just finished by itself: the step that ended it was a
\* timer firing or, for a one-frame recording, startPlayback.
AutoFinished ==
  /\ lastOp \in { "playbackTimer", "startPlayback" }
  /\ ~ isPlayingBack
  /\ FrameCount > 0
  /\ canvas = [ kind |-> "playback",
                keypoints |-> recordedFrames[FrameCount].keypoints ]

\* C5: after playback finishes by itself, the final recorded frame stays on
\* the canvas, in the visible count and in the table until the next user
\* action: no callback of the browser replaces it.  (Stated for the step
\* that follows the finish.)
C5_FinalFrameStays ==
  [][ (AutoFinished /\ lastOp' \notin UserOps)
        => /\ canvas' = canvas
           /\ visibleCount' = visibleCount
           /\ table' = table ]_vars

\* C6: driven through the controls the page leaves enabled, recording and
\* playback are never active together, no advance timer is pending while
\* recording, and startRecording leaves playback paused and the buffer
\* empty.
C6_RecordingExcludesPlayback ==
  /\ ~ (isRecording /\ isPlayingBack)
  /\ isRecording => timers = {}
  /\ lastOp = "startRecording"
       => ~ isPlayingBack /\ timers = {} /\ recordedFrames = << >>

\* A second recording is running, after an earlier one was played back.
C6_Witness ==
  /\ isRecording
  /\ FrameCount > 0
  /\ playbackIndex > 0

\* C7: after clearRecording the playback cursor is 0.
C7_ClearResetsCursor == lastOp = "clearRecording" => playbackIndex = 0

\* C8: clearRecording leaves recordedFrames empty, isPlayingBack false and
\* no advance timer pending, and as long as the buffer is empty no step
\* draws a recorded frame.
C8_ClearStopsPlayback ==
  /\ [] ( lastOp = "clearRecording"
            => /\ recordedFrames = << >>
               /\ ~ isPlayingBack
               /\ timers = {}
               /\ rendered = << >> )
  /\ [][ recordedFrames = << >> => rendered' = << >> ]_vars

\* clearRecording has just cancelled the pending advance of a playback.
C8_Witness ==
  /\ lastOp = "clearRecording"
  /\ cancelled # {}
  /\ recordedFrames = << >>

\* C9: clearRecording, called in any recorder state, leaves the recorder
\* idle with no frames: isRecording false and recordedFrames empty.
C9_ClearGoesIdle ==
  lastOp = "clearRecording" => ~ isRecording /\ recordedFrames = << >>

\* C10: whenever recordedFrames is non-empty the cursor points into it.
C10_CursorInRange ==
  recordedFrames # << >> => 0 <= playbackIndex /\ playbackIndex < FrameCount

\* C11: a tick that resumes with a detected pose appends exactly one frame
\* (the clock's value and a copy of the normalised keypoints) when
\* isRecording is true and leaves recordedFrames alone when it is false, a
\* tick without a pose never changes recordedFrames, and startRecording
\* empties the buffer: so while a recording runs, its length is the number
\* of such ticks since it started, whatever was recorded before.
C11_PushCounts ==
  /\ [] ( /\ isRecording => FrameCount = pushes
          /\ lastOp = "startRecording" => FrameCount = 0 )
  /\ [][ lastOp' = "poseLoopResume"
           => IF isRecording /\ detected' # 0
              THEN recordedFrames' =
                     Append(recordedFrames,
                            [ timestamp |-> clock',
                              keypoints |-> detected' ])
              ELSE recordedFrames' = recordedFrames ]_vars

\* The second tick of a second recording, begun over a recording that had
\* been played back, has pushed its frame.
C11_Witness ==
  /\ lastOp = "poseLoopResume"
  /\ isRecording
  /\ detected # 0
  /\ pushes = 2
  /\ FrameCount = 2
  /\ playbackIndex = 2

\* The two functions that replace the recording.
Emptiers == { "startRecording", "clearRecording" }

\* C12: stopRecording leaves recordedFrames as it is; while isRecording is
\* false no step other than startRecording and clearRecording (a live
\* tick, a timer firing, startPlayback, pausePlayback, a seek, the finish
\* of a playback) changes recordedFrames; the only step that changes it
\* besides those two is the push of a tick that runs while recording; and
\* startRecording and clearRecording both leave it empty.
C12_ReadOnlyWhileInactive ==
  [][ /\ lastOp' = "stopRecording" => recordedFrames' = recordedFrames
      /\ (~ isRecording /\ lastOp' \notin Emptiers)
           => recordedFrames' = recordedFrames
      /\ lastOp' \notin (Emptiers \cup { "poseLoopResume" })
           => recordedFrames' = recordedFrames
      /\ lastOp' \in Emptiers => recordedFrames' = << >> ]_vars

\* A tick with a detected pose has run over a stopped two-frame recording
\* and left it at two frames.
C12_Witness ==
  /\ lastOp = "poseLoopResume"
  /\ detected # 0
  /\ ~ isRecording
  /\ ~ isPlayingBack
  /\ FrameCount = 2

\* C13: startPlayback called on an empty recording changes nothing:
\* isPlayingBack, playbackIndex, playbackTimeoutId, recordedFrames, the
\* pending timers, the controls and what is displayed stay as they were,
\* no frame is drawn and no timer is cleared or set.
C13_StartPlaybackEmptyNoOp ==
  [][ (lastOp' = "startPlayback" /\ recordedFrames = << >>)
        => /\ UNCHANGED << isPlayingBack, playbackIndex, playbackTimeoutId,
                           recordedFrames, timers, disabled, sliderValue,
                           sliderMax, canvas, visibleCount, table >>
           /\ rendered' = << >>
           /\ cancelled' = {} ]_vars

\* startPlayback was called after a recording that had been played to its
\* third frame was cleared: the buffer is empty and the cursor still at 2.
C13_Witness ==
  /\ lastOp = "startPlayback"
  /\ recordedFrames = << >>
  /\ playbackIndex = 2
  /\ ~ isPlayingBack

\* C14: a slider input whose index lies outside [0, len-1] of a non-empty
\* recording is a no-op: playbackIndex, isPlayingBack and the pending
\* advance timer stay as they were and no frame is drawn.
C14_SeekOutOfRangeNoOp ==
  [][ ( /\ lastOp' = "sliderInput"
        /\ recordedFrames # << >>
        /\ sliderValue' \notin 0..(FrameCount - 1) )
        => /\ UNCHANGED << playbackIndex, isPlayingBack, timers,
                           playbackTimeoutId >>
           /\ rendered' = << >>
           /\ cancelled' = {} ]_vars

\* C15: pausePlayback leaves isPlayingBack false, cancels the pending
\* advance (no timer is left and the handle is null), leaves playbackIndex
\* and recordedFrames as they were and draws nothing; called while
\* playback is not active it changes nothing at all.
C15_PauseKeepsCursor ==
  [][ lastOp' = "pausePlayback"
        => /\ ~ isPlayingBack'
           /\ timers' = {}
           /\ cancelled' = { t.id : t \in timers }
           /\ isPlayingBack => playbackTimeoutId' = null
           /\ UNCHANGED << playbackIndex, recordedFrames >>
           /\ rendered' = << >>
           /\ ~ isPlayingBack
                => UNCHANGED << isPlayingBack, playbackTimeoutId, timers,
                               disabled, sliderValue, sliderMax, canvas,
                               visibleCount, table, isRecording >> ]_vars

\* pausePlayback has cancelled the advance to the third frame of a
\* playback standing on its second.
C15_Witness ==
  /\ lastOp = "pausePlayback"
  /\ cancelled # {}
  /\ ~ isPlayingBack
  /\ playbackTimeoutId = null
  /\ playbackIndex = 1
  /\ FrameCount = 3

\* C16: when clearRecording is called during active playback (it cancels
\* the pending advance), it draws no recorded frame and leaves the visible
\* count at 0 and the landmark table empty.
C16_ClearResetsDisplay ==
  (lastOp = "clearRecording" /\ cancelled # {})
    => /\ rendered = << >>
       /\ visibleCount = 0
       /\ table = 0

\* The label the raw point at position i (1-based) of the argument
\* resolves to is the label at position p of the table.
ResolvesTo(i, p) == ResolvedName(rawInput[i], i - 1) = KEYPOINT_LABELS[p]

\* C17: whatever raw list normalizeKeypoints is given (empty, shorter or
\* longer than the table, reordered, with duplicate, missing or unknown
\* names), it returns exactly 33 entries, entry i carries the name
\* KEYPOINT_LABELS[i] and the index i, an entry whose label no raw point
\* resolves to is the zero placeholder, and no entry carries a name that
\* is not a label.
C17_NormalizeShape ==
  lastOp = "normalizeKeypoints"
    => /\ Len(normalized) = 33
       /\ Len(normalized) = Len(KEYPOINT_LABELS)
       /\ \A p \in 1..Len(KEYPOINT_LABELS) :
            /\ p \in DOMAIN normalized
            /\ normalized[p].name = KEYPOINT_LABELS[p]
            /\ normalized[p].index = p - 1
            /\ (\A i \in 1..Len(rawInput) : ~ ResolvesTo(i, p))
                 => normalized[p] = [ name |-> KEYPOINT_LABELS[p],
                                      index |-> p - 1,
                                      x |-> 0, y |-> 0, z |-> 0, score |-> 0 ]
       /\ \A i \in 1..Len(rawInput), p \in DOMAIN normalized :
            ~ HasLabel(ResolvedName(rawInput[i], i - 1))
              => normalized[p].name # ResolvedName(rawInput[i], i - 1)

\* The call was given a list longer than the table, of points without a
\* name, with an unknown name appended and the first point replaced by a
\* "nose" that came with its own name.
C17_Witness ==
  /\ lastOp = "normalizeKeypoints"
  /\ Len(rawInput) = Len(KEYPOINT_LABELS) + 3
  /\ Has(rawInput[Len(rawInput)], "name")
  /\ rawInput[Len(rawInput)].name = "tail"
  /\ rawInput[1] = [ name |-> "nose", x |-> 96, y |-> 72, z |-> 1,
                     score |-> 700 ]
  /\ normalized[1].score = 700

\* The landmark at position i (0-based) of the normalised list has a score
\* of at least 0.5.
VisibleAt(i) ==
  /\ i + 1 \in DOMAIN normalized
  /\ normalized[i + 1].score >= 500

\* The raw points given neither a score nor a visibility.
Scoreless ==
  { i \in 1..Len(rawInput) :
      ~ Has(rawInput[i], "score") /\ ~ Has(rawInput[i], "visibility") }

\* C18: one inclusive threshold decides visibility: the visible count is
\* the number of the 33 landmarks whose score is at least 0.5; the points
\* drawn are exactly the visible ones; the skeleton edges drawn are exactly
\* those of the connection table whose two endpoints are both visible; and
\* a landmark that comes from a raw point without a score is not visible.
C18_VisibilityThreshold ==
  lastOp = "drawNormalized"
    => /\ Len(normalized) = 33
       /\ visibleCount = Cardinality({ i \in 0..32 : VisibleAt(i) })
       /\ drawn.points = { i \in 0..32 : VisibleAt(i) }
       /\ \A k \in 1..Len(SKELETON_LABEL_CONNECTIONS) :
            LET from == KEYPOINT_INDEX(SKELETON_LABEL_CONNECTIONS[k][1])
                to   == KEYPOINT_INDEX(SKELETON_LABEL_CONNECTIONS[k][2])
            IN << from, to >> \in drawn.lines
                 <=> VisibleAt(from) /\ VisibleAt(to)
       /\ \A c \in drawn.lines :
            \E k \in 1..Len(SKELETON_LABEL_CONNECTIONS) :
              /\ c[1] = KEYPOINT_INDEX(SKELETON_LABEL_CONNECTIONS[k][1])
              /\ c[2] = KEYPOINT_INDEX(SKELETON_LABEL_CONNECTIONS[k][2])
       /\ \A p \in 1..Len(KEYPOINT_LABELS) :
            ( /\ \E i \in 1..Len(rawInput) : ResolvesTo(i, p)
              /\ \A i \in 1..Len(rawInput) :
                   ResolvesTo(i, p) => i \in Scoreless )
              => (p - 1) \notin drawn.points

\* A normalised list was drawn in which the nose scores exactly 0.5 and
\* the left inner eye 0.499, the last landmark coming from a raw point
\* without a score: the nose is drawn and counted, the eye and the last
\* landmark are not, and the edge between nose and eye is not drawn.
C18_Witness ==
  /\ lastOp = "drawNormalized"
  /\ normalized[1].score = 500
  /\ normalized[2].score = 499
  /\ 0 \in drawn.points
  /\ 1 \notin drawn.points
  /\ << 0, 1 >> \notin drawn.lines
  /\ visibleCount > 1
  /\ Len(rawInput) \in Scoreless
  /\ normalized[33].x = 200

\* C19: while isPlayingBack is true the canvas, the visible count and the
\* table show recordedFrames[playbackIndex]; a step that moves the cursor
\* and leaves playback active has drawn the frame the cursor is on; and a
\* tick of the live loop that resumes while playback is active, with or
\* without a detected pose, leaves canvas, count and table as they were.
C19_DisplayFollowsCursor ==
  /\ [] ( isPlayingBack
            => /\ playbackIndex + 1 \in DOMAIN recordedFrames
               /\ LET frame == recordedFrames[playbackIndex + 1]
                  IN /\ canvas = [ kind |-> "playback",
                                   keypoints |-> frame.keypoints ]
                     /\ visibleCount =
                          Cardinality({ i \in 1..Len(Keypoints(frame.keypoints)) :
                             Keypoints(frame.keypoints)[i].score >= 500 })
                     /\ table = frame.keypoints )
  /\ [][ /\ (isPlayingBack' /\ playbackIndex' # playbackIndex)
            => /\ rendered' # << >>
               /\ rendered'[Len(rendered')]
                    = recordedFrames'[playbackIndex' + 1]
         /\ (isPlayingBack /\ lastOp' = "poseLoopResume")
            => UNCHANGED << canvas, visibleCount, table, playbackIndex >>
       ]_vars

\* A tick with a detected pose that is not the one recorded in the frame
\* on display has resumed during playback, the cursor on the second frame.
C19_Witness ==
  /\ lastOp = "poseLoopResume"
  /\ isPlayingBack
  /\ playbackIndex = 1
  /\ detected # 0
  /\ detected # recordedFrames[2].keypoints
  /\ canvas = [ kind |-> "playback", keypoints |-> recordedFrames[2].keypoints ]

\* C20: the live loop never stops by itself: once init has requested the
\* first frame, a run of poseLoop is pending or suspended at every moment
\* (exactly one), because every run that ends has requested the next.
C20_LoopNeverStops == initPc = "done" => rafPending + awaiting = 1

====
